---- MODULE Spec2Model ----
(***************************************************************************)
(* A model of the Naive Bayes classifier of src/naive_bayes_classifier.py. *)
(*                                                                         *)
(* Text is a sequence of one-character strings.  Probabilities are exact   *)
(* rationals <<numerator, denominator>>.  A value that the program keeps   *)
(* in log space (math.log(p), sums of such logs) is represented by the     *)
(* rational p whose logarithm it is: adding logs is multiplying the        *)
(* rationals, comparing logs is comparing the rationals, and               *)
(* math.exp(a - b) is the quotient of the two rationals.                   *)
(***************************************************************************)
EXTENDS Integers, Sequences, FiniteSets, TLC

VARIABLES
    alpha,            \* self.alpha, a rational
    use_ngrams,       \* self.use_ngrams
    class_priors,     \* self.class_priors: <<label, prior>> pairs in dict order
    word_likelihoods, \* self.word_likelihoods: [label -> [word -> likelihood]]
    vocab,            \* self.vocab
    is_trained,       \* self.is_trained
    vectorizer,       \* self.vectorizer: whether it is fitted, and its vocabulary_
    word_counts,      \* word_counts of the last train call that returned
    result,           \* what the call in progress returns or raises
    artifact,         \* the file models/naive_bayes_classifier.pkl
    program,          \* the position of the program that uses the artifact
    original,         \* the classifier that joblib.dump was last given
    fetch,            \* the call of fetch_page_content in progress
    scrape_log,       \* the file scrape_log.txt of fake.py
    scrape_run,       \* the invocations of scrape_npr_tech_news so far
    workers,          \* the ScrapingWorker threads of the ScrapingManager
    results,          \* self.results of the ScrapingManager, in dict order
    event_queue,      \* the queued signals of the thread the manager lives in
    manager           \* the position of ScrapingManager.run and its signals

\* The model artifact and the programs that write and read it.
persistence == <<artifact, program, original>>

\* The scraper of the application.
scraper == <<fetch, scrape_log, scrape_run, workers, results, event_queue, manager>>

\* The state of the application around the classifier object.
application == <<persistence, scraper>>

vars == <<alpha, use_ngrams, class_priors, word_likelihoods, vocab,
          is_trained, vectorizer, word_counts, result, application>>

\* The fields of a NaiveBayesClassifier that make up the trained model.
model == <<class_priors, word_likelihoods, vocab, is_trained>>

----------------------------------------------------------------------------
(* Bounds *)

\* The longest corpus passed to train.
MaxDocs == 2

\* The longest test set passed to evaluate.
MaxTest == 1

\* The most words and punctuation marks of a text given to preprocess_text.
MaxAtoms == 4

\* The largest top_n given to get_top_features.
MaxTop == 3

----------------------------------------------------------------------------
(* Characters and strings *)

Min(a, b) == IF a < b THEN a ELSE b

LowerLetters ==
    <<"a","b","c","d","e","f","g","h","i","j","k","l","m",
      "n","o","p","q","r","s","t","u","v","w","x","y","z">>
UpperLetters ==
    <<"A","B","C","D","E","F","G","H","I","J","K","L","M",
      "N","O","P","Q","R","S","T","U","V","W","X","Y","Z">>
Digits == <<"0","1","2","3","4","5","6","7","8","9">>

Range(s) == {s[i] : i \in DOMAIN s}

\* str.lower() on one character.
LowerChar(c) ==
    IF c \in Range(UpperLetters)
    THEN LowerLetters[CHOOSE i \in DOMAIN UpperLetters : UpperLetters[i] = c]
    ELSE c

\* str.lower()
Lower(text) == [i \in DOMAIN text |-> LowerChar(text[i])]

\* \w of the re module: letters, digits and the underscore.
IsWordChar(c) ==
    c \in Range(LowerLetters) \cup Range(UpperLetters) \cup Range(Digits) \cup {"_"}

\* The whitespace str.split() and str.strip() act on.
IsSpace(c) == c \in {" ", "\t", "\n"}

\* The class of scope-ending marks without the comma.
IsPunctNoComma(c) == c \in {".", "!", "?", ";", ":"}

\* The class [.,!?;:] that ends a negation scope.
IsPunct(c) == c \in {".", ",", "!", "?", ";", ":"}

\* Python's s[a:b] for 0 <= a, with both ends clamped to len(s).
Slice(s, a, b) == SubSeq(s, Min(a, Len(s)) + 1, Min(b, Len(s)))

\* " ".join(words)
RECURSIVE JoinSpace(_)
JoinSpace(words) ==
    IF words = <<>> THEN <<>>
    ELSE IF Len(words) = 1 THEN words[1]
    ELSE words[1] \o <<" ">> \o JoinSpace(Tail(words))

\* str.split(): the maximal runs of non-whitespace characters, in order.
RECURSIVE SplitFrom(_, _, _)
SplitFrom(s, i, cur) ==
    IF i > Len(s) THEN (IF cur = <<>> THEN <<>> ELSE <<cur>>)
    ELSE IF IsSpace(s[i])
         THEN (IF cur = <<>> THEN <<>> ELSE <<cur>>) \o SplitFrom(s, i + 1, <<>>)
         ELSE SplitFrom(s, i + 1, Append(cur, s[i]))

Split(s) == SplitFrom(s, 1, <<>>)

\* str(document).strip() == ''
IsBlank(s) == \A i \in DOMAIN s : IsSpace(s[i])

----------------------------------------------------------------------------
(* preprocess_text *)

\* The alternatives of the negation pattern, in the order the pattern lists them.
NegationCues ==
    << <<"n","o","t">>, <<"n","o">>, <<"n","e","v","e","r">>, <<"n","o","n","e">>,
       <<"n","'","t">>, <<"d","o","n","'","t">>, <<"d","o","e","s","n","'","t">>,
       <<"d","i","d","n","'","t">>, <<"i","s","n","'","t">>, <<"a","r","e","n","'","t">>,
       <<"w","a","s","n","'","t">>, <<"w","e","r","e","n","'","t">>,
       <<"h","a","v","e","n","'","t">>, <<"h","a","s","n","'","t">>,
       <<"h","a","d","n","'","t">>, <<"w","o","n","'","t">>,
       <<"w","o","u","l","d","n","'","t">>, <<"s","h","o","u","l","d","n","'","t">>,
       <<"c","o","u","l","d","n","'","t">>, <<"c","a","n","'","t">>,
       <<"c","a","n","n","o","t">> >>

\* \b between the 0-based positions p-1 and p of s.
WordBoundary(s, p) ==
    LET before == p >= 1 /\ p <= Len(s) /\ IsWordChar(s[p])
        after  == p < Len(s) /\ IsWordChar(s[p + 1])
    IN  before # after

\* The cue alternative k matches s at the 0-based position p: \b cue \b.
CueMatchesAt(s, p, k) ==
    LET cue == NegationCues[k]
    IN  /\ p + Len(cue) <= Len(s)
        /\ SubSeq(s, p + 1, p + Len(cue)) = cue
        /\ WordBoundary(s, p)
        /\ WordBoundary(s, p + Len(cue))

\* match.end() of the match that starts at p, or 0 when none does: the
\* first alternative that matches wins.
MatchEndAt(s, p) ==
    LET ks == {k \in DOMAIN NegationCues : CueMatchesAt(s, p, k)}
    IN  IF ks = {} THEN 0
        ELSE p + Len(NegationCues[CHOOSE k \in ks : \A j \in ks : k <= j])

\* re.finditer(pattern, text): the match.end() of every non-overlapping
\* match, scanning the string given to finditer from left to right.
RECURSIVE MatchEnds(_, _)
MatchEnds(s, p) ==
    IF p >= Len(s) THEN <<>>
    ELSE LET e == MatchEndAt(s, p)
         IN  IF e = 0 THEN MatchEnds(s, p + 1)
             ELSE <<e>> \o MatchEnds(s, e)

\* The offset of the first punctuation mark of s, or -1: re.search(r"[.,!?;:]", s).
PunctuationStart(s) ==
    LET ps == {i \in DOMAIN s : IsPunct(s[i])}
    IN  IF ps = {} THEN -1 ELSE (CHOOSE i \in ps : \A j \in ps : i <= j) - 1

\* One pass of the loop body over a match that ends at match_end, applied
\* to the current value of text.
NegateAfter(text, match_end) ==
    LET pm       == PunctuationStart(Slice(text, match_end, Len(text)))
        end_pos  == IF pm >= 0 THEN match_end + pm ELSE Len(text)
        words    == Split(Slice(text, match_end, end_pos))
        negated  == [i \in DOMAIN words |-> <<"N","O","T","_">> \o words[i]]
    IN  Slice(text, 0, match_end) \o <<" ">> \o JoinSpace(negated)
            \o Slice(text, end_pos, Len(text))

\* The loop over the matches: the matches are those of the string that
\* finditer was given, while each rewrite acts on the rewritten text.
RECURSIVE NegateAll(_, _)
NegateAll(text, ends) ==
    IF ends = <<>> THEN text
    ELSE NegateAll(NegateAfter(text, ends[1]), Tail(ends))

\* re.sub(r"[^a-zNOT_]", " ", text)
KeepWords(text) ==
    [i \in DOMAIN text |->
        IF text[i] \in Range(LowerLetters) \cup {"N", "O", "T", "_"}
        THEN text[i] ELSE " "]

\* A document is a string (isstr, with its text) or None.
NoneDoc == [isstr |-> FALSE, text |-> <<>>]
Str(text) == [isstr |-> TRUE, text |-> text]

preprocess_text(doc) ==
    IF ~doc.isstr THEN <<>>
    ELSE LET lowered == Lower(doc.text)
         IN  Split(KeepWords(NegateAll(lowered, MatchEnds(lowered, 0))))

----------------------------------------------------------------------------
(* Exact arithmetic on non-negative rationals <<numerator, denominator>> *)

RECURSIVE Gcd(_, _)
Gcd(a, b) == IF b = 0 THEN a ELSE Gcd(b, a % b)

\* The rational n/d in lowest terms, for n >= 0 and d > 0.
Rat(n, d) == LET g == Gcd(n, d) IN <<n \div g, d \div g>>

RInt(n) == <<n, 1>>
\* The operations divide by common factors before they multiply, which
\* keeps the intermediate products small.
RAdd(a, b) ==
    LET g == Gcd(a[2], b[2])
    IN  Rat(a[1] * (b[2] \div g) + b[1] * (a[2] \div g), (a[2] \div g) * b[2])
RMul(a, b) ==
    LET g1 == Gcd(a[1], b[2])
        g2 == Gcd(b[1], a[2])
    IN  Rat((a[1] \div g1) * (b[1] \div g2), (a[2] \div g2) * (b[2] \div g1))
\* a / b for b > 0.
RDiv(a, b) == RMul(a, <<b[2], b[1]>>)
RLess(a, b) ==
    LET g == Gcd(a[2], b[2])
    IN  a[1] * (b[2] \div g) < b[1] * (a[2] \div g)
REq(a, b) ==
    LET g == Gcd(a[2], b[2])
    IN  a[1] * (b[2] \div g) = b[1] * (a[2] \div g)
RZero == RInt(0)
ROne == RInt(1)
RHalf == Rat(1, 2)

RECURSIVE RSum(_)
RSum(rs) == IF rs = <<>> THEN RZero ELSE RAdd(rs[1], RSum(Tail(rs)))

RECURSIVE RProd(_)
RProd(rs) == IF rs = <<>> THEN ROne ELSE RMul(rs[1], RProd(Tail(rs)))

\* sum(f.values()) of a dict whose values are rationals.
RECURSIVE RSumOver(_, _)
RSumOver(f, keys) ==
    IF keys = {} THEN RZero
    ELSE LET k == CHOOSE x \in keys : TRUE
         IN  RAdd(f[k], RSumOver(f, keys \ {k}))

----------------------------------------------------------------------------
(* Sequences and ordered dicts *)

\* The number of occurrences of x in seq.
CountIn(seq, x) == Cardinality({i \in DOMAIN seq : seq[i] = x})

\* The distinct elements of seq in the order of their first occurrence:
\* the key order of a dict or Counter filled by iterating seq.
RECURSIVE FirstOccurrences(_)
FirstOccurrences(seq) ==
    IF seq = <<>> THEN <<>>
    ELSE LET front == FirstOccurrences(SubSeq(seq, 1, Len(seq) - 1))
             last  == seq[Len(seq)]
         IN  IF last \in Range(front) THEN front ELSE Append(front, last)

\* A dict in insertion order is a sequence of <<key, value>> pairs.
Keys(dict) == [i \in DOMAIN dict |-> dict[i][1]]
KeySet(dict) == {dict[i][1] : i \in DOMAIN dict}
Value(dict, k) == dict[CHOOSE i \in DOMAIN dict : dict[i][1] = k][2]

RECURSIVE Concat(_)
Concat(seqs) == IF seqs = <<>> THEN <<>> ELSE seqs[1] \o Concat(Tail(seqs))

----------------------------------------------------------------------------
(* The inputs *)

Labels == {0, 1}

\* The smoothing parameters a classifier is constructed with.
Alphas == {ROne, RHalf}

\* The documents of the corpora given to train and evaluate.
TrainDocs ==
    { NoneDoc,
      Str(<<>>),
      Str(<<"A", "a">>),
      Str(<<"a", "a", " ", "b", "b">>) }

\* The documents given to predict.
PredictDocs ==
    TrainDocs \cup
    { Str(<<" ">>),
      Str(<<"7">>),
      Str(<<"b", "b">>),
      Str(<<"a", "a", " ", "a", "a">>) }

\* The corpus of the end-to-end scenario, "free miracle cure click now"
\* and "senate passes bipartisan budget bill", and the document it
\* classifies, "bipartisan senate vote".
ScenarioFake ==
    Str(<<
        "f","r","e","e"," ","m","i","r","a","c","l","e"," ","c","u","r","e",
        " ","c","l","i","c","k"," ","n","o","w" >>)
ScenarioReal ==
    Str(<<
        "s","e","n","a","t","e"," ","p","a","s","s","e","s"," ","b","i","p",
        "a","r","t","i","s","a","n"," ","b","u","d","g","e","t"," ","b","i",
        "l","l" >>)
ScenarioQuery ==
    Str(<<
        "b","i","p","a","r","t","i","s","a","n"," ","s","e","n","a","t","e",
        " ","v","o","t","e" >>)
ScenarioDocs == {ScenarioFake, ScenarioReal}

\* word repeated n times, separated by single spaces.
Repeat(word, n) == JoinSpace([i \in 1..n |-> word])

\* Documents of two classes that share no token: "aa" and "bb bb" for the
\* one, "", "cc" and "cc cc" for the other, and a longer document of the
\* first class, "bb bb bb bb bb bb".
ClassZeroDocs == { Str(<<"a", "a">>), Str(Repeat(<<"b", "b">>, 2)) }
ClassOneDocs == { Str(<<>>), Str(<<"c", "c">>), Str(Repeat(<<"c", "c">>, 2)) }
LongDoc == Str(Repeat(<<"b", "b">>, 6))

\* The sequences over S of length at most n.
SeqsUpTo(S, n) == UNION {[1..k -> S] : k \in 0..n}

\* The words and the punctuation mark that the texts given to
\* preprocess_text are made of: "no", "ok", "x" and ".".
Atoms == { <<"n", "o">>, <<"o", "k">>, <<"x">>, <<".">> }

\* "this is not good." and "not good, but fine"
NotGoodText ==
    <<"t","h","i","s"," ","i","s"," ","n","o","t"," ","g","o","o","d",".">>
ButFineText ==
    <<"n","o","t"," ","g","o","o","d",","," ","b","u","t"," ","f","i","n",
      "e">>

\* The texts given to preprocess_text: the atoms joined by single spaces,
\* and the two sentences.
TokenizerTexts ==
    {JoinSpace(atoms) : atoms \in SeqsUpTo(Atoms, MaxAtoms)}
        \cup {NotGoodText, ButFineText}

\* Every document given to train, predict or evaluate.
\* Documents with the token cc, which no corpus of TrainDocs has.
UnknownDocs ==
    { Str(<<"c", "c">>),
      Str(<<"a", "a", " ", "c", "c">>),
      Str(<<"c", "c", " ", "b", "b", " ", "c", "c">>) }

\* A field of an article record: absent from the dict, None, a string or a
\* non-zero number.
AbsentCell == [kind |-> "absent", text |-> <<>>]
NoneCell == [kind |-> "none", text |-> <<>>]
StrCell(text) == [kind |-> "str", text |-> text]
NumberCell == [kind |-> "number", text |-> <<"5">>]

\* An article record as the scraper leaves it, without prediction fields.
Article(title, teaser, full_content, content_paragraphs) ==
    [ Title              |-> title,
      Teaser             |-> teaser,
      Full_Content       |-> full_content,
      Content_Paragraphs |-> content_paragraphs,
      annotated          |-> FALSE,
      Prediction         |-> "",
      Fake_Probability   |-> <<0, 1>>,
      Real_Probability   |-> <<0, 1>>,
      Confidence         |-> <<0, 1>>,
      Fake_News_Label    |-> "",
      Key_Features       |-> <<>> ]

\* The articles given to detect_fake_news_with_nb: with the full content,
\* with paragraphs only, with a title only, with an empty title only, with a
\* number as content, and without a title.
Articles ==
    { Article(StrCell(<<"A", "a">>), AbsentCell,
              StrCell(<<"a", "a", " ", "b", "b">>), AbsentCell),
      Article(StrCell(<<"A", "a">>), AbsentCell,
              NoneCell, StrCell(<<"b", "b">>)),
      Article(StrCell(<<"b", "b">>), AbsentCell, AbsentCell, AbsentCell),
      Article(StrCell(<<>>), AbsentCell, StrCell(<<>>), AbsentCell),
      Article(StrCell(<<"A", "a">>), AbsentCell, NumberCell, AbsentCell),
      Article(AbsentCell, AbsentCell, NoneCell, AbsentCell) }

\* article[field] and pd.notna(article[field]) for a field in the article.
Usable(cell) ==
    \/ cell.kind = "number"
    \/ cell.kind = "str" /\ cell.text # <<>>

\* str(value)
StrOf(cell) ==
    IF cell.kind = "none" THEN <<"N", "o", "n", "e">> ELSE cell.text

\* The text detect_fake_news_with_nb takes from an article (lines 255-260),
\* or the KeyError of article['Title'].
ArticleText(article) ==
    IF Usable(article.Full_Content) THEN article.Full_Content
    ELSE IF Usable(article.Content_Paragraphs) THEN article.Content_Paragraphs
    ELSE IF article.Title.kind = "absent"
    THEN [kind |-> "KeyError", text |-> <<>>]
    ELSE StrCell(StrOf(article.Title) \o <<" ">>
                    \o (IF article.Teaser.kind = "absent"
                        THEN <<>> ELSE StrOf(article.Teaser)))

\* The texts of the articles that are strings.
ArticleDocs ==
    { Str(ArticleText(article).text) :
        article \in {a \in Articles : ArticleText(a).kind = "str"} }

ModelDocs ==
    ArticleDocs \cup
    PredictDocs \cup ScenarioDocs \cup {ScenarioQuery}
        \cup ClassZeroDocs \cup ClassOneDocs \cup {LongDoc} \cup UnknownDocs


\* The label sequences a corpus is paired with: every labelling of its
\* documents, and one label sequence of each length up to n.
LabelSeqs(documents, n) ==
    [DOMAIN documents -> Labels] \cup {[i \in 1..m |-> 0] : m \in 0..n}

----------------------------------------------------------------------------
(* CountVectorizer(ngram_range=(1, 2) if use_ngrams else (1, 1)), as train and
   predict use it: only ever called when use_ngrams is set. *)

\* The token pattern \b\w\w+\b: the maximal runs of word characters that
\* are at least two characters long.
RECURSIVE WordRunsFrom(_, _, _)
WordRunsFrom(s, i, cur) ==
    LET emit == IF Len(cur) >= 2 THEN <<cur>> ELSE <<>>
    IN  IF i > Len(s) THEN emit
        ELSE IF IsWordChar(s[i]) THEN WordRunsFrom(s, i + 1, Append(cur, s[i]))
        ELSE emit \o WordRunsFrom(s, i + 1, <<>>)

\* The analyzer: lower-case, tokenize, then every token and every pair of
\* adjacent tokens joined by one space.
VectorizerFeatures(text) ==
    LET tokens == WordRunsFrom(Lower(text), 1, <<>>)
        bigrams == [i \in 1..(Len(tokens) - 1) |-> tokens[i] \o <<" ">> \o tokens[i + 1]]
    IN  tokens \o bigrams

\* preprocess_text and the analyzer on the documents of the model, computed
\* once.
PreprocessedText == [doc \in ModelDocs |-> preprocess_text(doc)]
AnalyzedText == [doc \in ModelDocs |-> VectorizerFeatures(doc.text)]

Tokenize(doc) == PreprocessedText[doc]
Analyze(doc) == AnalyzedText[doc]

\* The vocabulary fit would learn: the features of all the documents.
FitVocabulary(documents) ==
    UNION {Range(Analyze(documents[i])) : i \in DOMAIN documents}

\* fit raises on a document that is no string and on an empty vocabulary.
FitOutcome(documents) ==
    IF \E i \in DOMAIN documents : ~documents[i].isstr THEN "InvalidDocument"
    ELSE IF FitVocabulary(documents) = {} THEN "EmptyVocabulary"
    ELSE "ok"

\* The order of characters and of strings that sorts get_feature_names_out().
CharOrder == <<" ", "'">> \o Digits \o UpperLetters \o <<"_">> \o LowerLetters
CharIndex(c) == CHOOSE i \in DOMAIN CharOrder : CharOrder[i] = c

RECURSIVE StrLess(_, _)
StrLess(a, b) ==
    IF b = <<>> THEN FALSE
    ELSE IF a = <<>> THEN TRUE
    ELSE IF a[1] = b[1] THEN StrLess(Tail(a), Tail(b))
    ELSE CharIndex(a[1]) < CharIndex(b[1])

RECURSIVE SortedStrings(_)
SortedStrings(S) ==
    IF S = {} THEN <<>>
    ELSE LET least == CHOOSE x \in S : \A y \in S \ {x} : StrLess(x, y)
         IN  <<least>> \o SortedStrings(S \ {least})

\* transform([doc]): the features of doc that are in the fitted vocabulary,
\* with their multiplicity.
Transform(vocabulary, doc) ==
    SelectSeq(Analyze(doc), LAMBDA f : f \in vocabulary)

----------------------------------------------------------------------------
(* The outcome of a call *)

\* What the last call returned or raised.  outcome is "ok" or the error:
\*   DimensionMismatch  ValueError("... must have the same length")
\*   NotTrained         ValueError("Classifier not trained. Please train first.")
\*   InvalidDocument, EmptyVocabulary   raised by CountVectorizer.fit
\*   KeyError, ZeroDivisionError, EmptySequence (max() of no items)
NoResult ==
    [ op            |-> "init",
      outcome       |-> "ok",
      documents     |-> <<>>,
      labels        |-> <<>>,
      document      |-> NoneDoc,
      scored        |-> FALSE,
      label         |-> 0,
      probabilities |-> <<>>,
      log_probs     |-> <<>>,
      contributions |-> <<>>,
      accuracy      |-> RZero,
      predictions   |-> <<>>,
      tokens        |-> <<>>,
      features      |-> <<>>,
      top_n         |-> 0,
      top_features  |-> <<>> ]

\* No file at the model path.
NoArtifact == [state |-> "missing", fields |-> <<>>]

\* No program is running: neither train_nb_classifier.main nor
\* detect_fake_news_with_nb.  outcome is "returned" or the exception that
\* leaves detect_fake_news_with_nb.
NoProgram ==
    [ main          |-> "none",
      pc            |-> "idle",
      loaded        |-> FALSE,
      outcome       |-> "none",
      articles_data |-> <<>> ]

\* Nothing has been given to joblib.dump.
NoOriginal == [fields |-> <<>>, predictions |-> <<>>]

\* No call of fetch_page_content is in progress.  trace is what the call
\* has done so far: its requests with their outcomes, and its sleeps.
NoFetch ==
    [ pc          |-> "idle",
      max_retries |-> 0,
      attempt     |-> 0,
      trace       |-> <<>>,
      returned    |-> "nothing" ]

\* scrape_log.txt does not exist.  Its lines are the times of the runs, a
\* time being a day and the number of the run.
NoLog == [exists |-> FALSE, lines |-> <<>>]

\* scrape_npr_tech_news has not been invoked: the number of invocations and
\* of invocations that issued the HTTP request, and what the last invocation
\* found and did.
NoRun ==
    [ invocations |-> 0,
      requests    |-> 0,
      found       |-> 0,
      logged      |-> FALSE,
      prompted    |-> FALSE,
      fetched     |-> FALSE,
      reported    |-> FALSE,
      remaining   |-> 0 ]

\* ScrapingManager.__init__: run has not started and has emitted nothing.
NoManager == [pc |-> "created", waited |-> 0, emitted |-> <<>>]

----------------------------------------------------------------------------
(* __init__ *)

Init ==
    /\ alpha \in Alphas
    /\ use_ngrams \in BOOLEAN
    /\ class_priors = <<>>
    /\ word_likelihoods = <<>>
    /\ vocab = {}
    /\ is_trained = FALSE
    /\ vectorizer = [fitted |-> FALSE, vocabulary |-> {}]
    /\ word_counts = <<>>
    /\ result = NoResult
    /\ artifact = NoArtifact
    /\ program = NoProgram
    /\ original = NoOriginal
    /\ fetch = NoFetch
    /\ scrape_log = NoLog
    /\ scrape_run = NoRun
    /\ workers = <<>>
    /\ results = <<>>
    /\ event_queue = <<>>
    /\ manager = NoManager

----------------------------------------------------------------------------
(* train *)

\* Counter(labels) and the priors computed from it, in the Counter's order.
ClassPriors(documents, labels) ==
    LET order == FirstOccurrences(labels)
    IN  [i \in DOMAIN order |->
            <<order[i], Rat(CountIn(labels, order[i]), Len(documents))>>]

\* The features train counts for one document: the vectorizer's, or the
\* tokens of preprocess_text.
TrainFeatures(doc, vocabulary) ==
    IF use_ngrams THEN Transform(vocabulary, doc) ELSE Tokenize(doc)

\* word_counts after the counting loop: for each label of the corpus, the
\* features of its documents mapped to their number of occurrences.
WordCounts(documents, labels, vocabulary) ==
    [label \in Range(labels) |->
        LET feats == Concat([i \in DOMAIN documents |->
                        IF labels[i] = label
                        THEN TrainFeatures(documents[i], vocabulary) ELSE <<>>])
        IN  [word \in Range(feats) |-> CountIn(feats, word)]]

\* word_counts[label].get(word, 0)
CountOf(counts, label, word) ==
    IF word \in DOMAIN counts[label] THEN counts[label][word] ELSE 0

\* sum(word_counts[label].values())
RECURSIVE SumCounts(_, _)
SumCounts(row, keys) ==
    IF keys = {} THEN 0
    ELSE LET k == CHOOSE x \in keys : TRUE
         IN  row[k] + SumCounts(row, keys \ {k})

TotalWordsInClass(counts, label) == SumCounts(counts[label], DOMAIN counts[label])

\* Likelihood with the vocabulary size not scaled by alpha.
LikelihoodUnscaledVocabulary(count, total_words_in_class, vocab_size) ==
    RDiv(RAdd(RInt(count), alpha),
         RAdd(RInt(total_words_in_class), RInt(vocab_size)))

\* Likelihood with no smoothing of the count.
LikelihoodUnsmoothedCount(count, total_words_in_class, vocab_size) ==
    RDiv(RInt(count),
         RAdd(RInt(total_words_in_class), RMul(alpha, RInt(vocab_size))))

\* The Laplace-smoothed likelihood of a word.
Likelihood(count, total_words_in_class, vocab_size) ==
    RDiv(RAdd(RInt(count), alpha),
         RAdd(RInt(total_words_in_class), RMul(alpha, RInt(vocab_size))))

\* self.vocab after the counting loop.
TrainedVocab(counts, fitted) ==
    (IF use_ngrams THEN fitted ELSE vocab)
        \cup UNION {DOMAIN counts[label] : label \in DOMAIN counts}

\* The likelihoods with, for each label, the number of words counted for
\* the label in place of the size of the vocabulary.
WordLikelihoodsOwnWords(counts, vocabulary) ==
    [label \in DOMAIN counts |->
        [word \in vocabulary |->
            Likelihood(CountOf(counts, label, word),
                       TotalWordsInClass(counts, label),
                       Cardinality(DOMAIN counts[label]))]]

\* self.word_likelihoods after the loop at lines 95-106.
WordLikelihoods(counts, vocabulary) ==
    [label \in DOMAIN counts |->
        [word \in vocabulary |->
            Likelihood(CountOf(counts, label, word),
                       TotalWordsInClass(counts, label),
                       Cardinality(vocabulary))]]

\* No call is in progress: the caller has taken the last outcome.
Idle == result = NoResult

\* The length check placed after the model has been reset.
RaiseAfterReset(documents, labels) ==
    /\ result' = [NoResult EXCEPT !.op = "train", !.outcome = "DimensionMismatch",
                      !.documents = documents, !.labels = labels]
    /\ class_priors' = <<>>
    /\ word_likelihoods' = <<>>
    /\ is_trained' = FALSE
    /\ UNCHANGED <<alpha, use_ngrams, vocab, vectorizer, word_counts>>

\* The length check: the error is raised before anything is assigned.
RaiseDimensionMismatch(documents, labels) ==
    /\ result' = [NoResult EXCEPT !.op = "train", !.outcome = "DimensionMismatch",
                      !.documents = documents, !.labels = labels]
    /\ UNCHANGED <<alpha, use_ngrams, class_priors, word_likelihoods, vocab,
                   is_trained, vectorizer, word_counts>>

TrainCall(documents, labels) ==
    IF Len(documents) # Len(labels)
    THEN RaiseDimensionMismatch(documents, labels)
    ELSE LET fit == IF use_ngrams THEN FitOutcome(documents) ELSE "ok"
         IN  IF fit # "ok"
             THEN \* fit raises after class_priors has been assigned
                  /\ class_priors' = ClassPriors(documents, labels)
                  /\ result' = [NoResult EXCEPT !.op = "train", !.outcome = fit,
                                    !.documents = documents, !.labels = labels]
                  /\ UNCHANGED <<alpha, use_ngrams, word_likelihoods, vocab,
                                 is_trained, vectorizer, word_counts>>
             ELSE LET fitted == IF use_ngrams THEN FitVocabulary(documents) ELSE {}
                      counts == WordCounts(documents, labels, fitted)
                      vocabulary == TrainedVocab(counts, fitted)
                  IN  /\ class_priors' = ClassPriors(documents, labels)
                      /\ vectorizer' = IF use_ngrams
                                       THEN [fitted |-> TRUE, vocabulary |-> fitted]
                                       ELSE vectorizer
                      /\ vocab' = vocabulary
                      /\ word_counts' = counts
                      /\ word_likelihoods' = WordLikelihoods(counts, vocabulary)
                      /\ is_trained' = TRUE
                      /\ result' = [NoResult EXCEPT !.op = "train",
                                        !.documents = documents, !.labels = labels]
                      /\ UNCHANGED <<alpha, use_ngrams>>

\* train(documents, labels), on corpora of equal length and on label
\* sequences of every other length.
Train ==
    /\ Idle
    /\ \E documents \in SeqsUpTo(TrainDocs, MaxDocs) :
          \E labels \in LabelSeqs(documents, MaxDocs) :
              TrainCall(documents, labels)
    /\ UNCHANGED application

----------------------------------------------------------------------------
(* predict *)

\* The empty-document test without the strip().
IsEmptyDocumentNoStrip(doc) == ~doc.isstr \/ doc.text = <<>>

\* not document or pd.isna(document) or str(document).strip() == ''
IsEmptyDocument(doc) == ~doc.isstr \/ IsBlank(doc.text)

\* The features predict scores: each vectorizer feature of the document
\* once, in the order of get_feature_names_out(), or the tokens of
\* preprocess_text.
PredictTokens(doc) ==
    IF use_ngrams
    THEN SortedStrings(Range(Transform(vectorizer.vocabulary, doc)))
    ELSE Tokenize(doc)

\* total_words_in_class as the number of words counted for the label.
UnknownTotalFromCounts(label) ==
    IF label \in DOMAIN word_counts
    THEN RInt(TotalWordsInClass(word_counts, label)) ELSE RZero

\* total_words_in_class of the unknown-word branch.
UnknownTotal(label) ==
    RSumOver(word_likelihoods[label], DOMAIN word_likelihoods[label])

\* The denominator of unknown_prob.
UnknownDenominator(label) ==
    RAdd(UnknownTotal(label), RMul(alpha, RInt(Cardinality(vocab))))

\* unknown_prob, where its denominator is not zero.
UnknownProb(label) == RDiv(alpha, UnknownDenominator(label))

\* token_prob or unknown_prob: the probability whose log is added for token.
TokenProb(label, token) ==
    IF token \in DOMAIN word_likelihoods[label]
    THEN word_likelihoods[label][token]
    ELSE UnknownProb(label)

\* What the scoring of one label raises.
LabelError(label, tokens) ==
    IF tokens = <<>> THEN "ok"
    ELSE IF label \notin DOMAIN word_likelihoods THEN "KeyError"
    ELSE IF \E i \in DOMAIN tokens :
                /\ tokens[i] \notin DOMAIN word_likelihoods[label]
                /\ UnknownDenominator(label)[1] = 0
         THEN "ZeroDivisionError"
    ELSE "ok"

\* log_probs[label] without the logs of the token probabilities.
LogProbPriorOnly(label, tokens) == Value(class_priors, label)

\* log_probs[label]: the log of the prior plus the logs of the token
\* probabilities.
LogProb(label, tokens) ==
    RMul(Value(class_priors, label),
         RProd([i \in DOMAIN tokens |-> TokenProb(label, tokens[i])]))

\* feature_contributions[label]: each token with the log of its probability.
Contributions(label, tokens) ==
    LET keys == FirstOccurrences(tokens)
    IN  [i \in DOMAIN keys |-> <<keys[i], TokenProb(label, keys[i])>>]

\* min in place of max: the first item that exceeds no other item.
ArgMin(log_probs) ==
    log_probs[CHOOSE i \in DOMAIN log_probs :
                /\ \A j \in DOMAIN log_probs : ~RLess(log_probs[j][2], log_probs[i][2])
                /\ \A j \in 1..(i - 1) : RLess(log_probs[i][2], log_probs[j][2])][1]

\* max(log_probs.items(), key=lambda x: x[1])[0]: the first item of
\* log_probs, in its order, that no other item exceeds.
ArgMax(log_probs) ==
    log_probs[CHOOSE i \in DOMAIN log_probs :
                /\ \A j \in DOMAIN log_probs : ~RLess(log_probs[i][2], log_probs[j][2])
                /\ \A j \in 1..(i - 1) : RLess(log_probs[j][2], log_probs[i][2])][1]

\* max(log_probs.values())
MaxLogProb(log_probs) ==
    log_probs[CHOOSE i \in DOMAIN log_probs :
                \A j \in DOMAIN log_probs : ~RLess(log_probs[i][2], log_probs[j][2])][2]

\* Probabilities without the division by exp_sum.
ProbabilitiesNotNormalised(log_probs) ==
    LET max_log_prob == MaxLogProb(log_probs)
    IN  [i \in DOMAIN log_probs |->
            <<log_probs[i][1], RDiv(log_probs[i][2], max_log_prob)>>]

\* The log-sum-exp normalisation.
Probabilities(log_probs) ==
    LET max_log_prob == MaxLogProb(log_probs)
        exps == [i \in DOMAIN log_probs |-> RDiv(log_probs[i][2], max_log_prob)]
        exp_sum == RSum(exps)
    IN  [i \in DOMAIN log_probs |-> <<log_probs[i][1], RDiv(exps[i], exp_sum)>>]

\* predict(document, return_details=True): the fields of result it sets,
\* order being the labels in the order the loop over self.class_priors
\* visits them.
PredictResultIn(order, document) ==
    LET base == [NoResult EXCEPT !.op = "predict", !.document = document]
    IN  IF ~is_trained THEN [base EXCEPT !.outcome = "NotTrained"]
        ELSE IF IsEmptyDocument(document)
        THEN [base EXCEPT !.label = 0,
                          !.probabilities = << <<0, RHalf>>, <<1, RHalf>> >>]
        ELSE IF use_ngrams /\ ~vectorizer.fitted
        THEN [base EXCEPT !.outcome = "NotFitted"]
        ELSE
        LET tokens == PredictTokens(document)
            bad    == {i \in DOMAIN order : LabelError(order[i], tokens) # "ok"}
        IN  IF bad # {}
            THEN [base EXCEPT !.scored = TRUE,
                      !.outcome = LabelError(
                          order[CHOOSE i \in bad : \A j \in bad : i <= j], tokens)]
            ELSE IF order = <<>>
            THEN [base EXCEPT !.scored = TRUE, !.outcome = "EmptySequence"]
            ELSE LET log_probs ==
                         [i \in DOMAIN order |-> <<order[i], LogProb(order[i], tokens)>>]
                 IN  [base EXCEPT
                        !.scored = TRUE,
                        !.log_probs = log_probs,
                        !.contributions =
                            [i \in DOMAIN order |->
                                <<order[i], Contributions(order[i], tokens)>>],
                        !.label = ArgMax(log_probs),
                        !.probabilities = Probabilities(log_probs)]

PredictResult(document) == PredictResultIn(Keys(class_priors), document)

\* predict adding the tokens it scores to self.vocab.
PredictAddingTokens ==
    \E document \in PredictDocs :
        /\ Idle
        /\ result' = PredictResult(document)
        /\ vocab' = IF PredictResult(document).scored
                    THEN vocab \cup Range(PredictTokens(document))
                    ELSE vocab
        /\ UNCHANGED <<application, alpha, use_ngrams,
                       class_priors, word_likelihoods,
                       is_trained, vectorizer, word_counts>>

Predict ==
    \E document \in PredictDocs :
        /\ Idle
        /\ result' = PredictResult(document)
        /\ UNCHANGED <<application, alpha, use_ngrams,
                       class_priors, word_likelihoods, vocab,
                       is_trained, vectorizer, word_counts>>

----------------------------------------------------------------------------
(* evaluate *)

\* evaluate(test_documents, test_labels): the fields of result it sets.
EvaluateResult(test_documents, test_labels) ==
    LET base == [NoResult EXCEPT !.op = "evaluate",
                     !.documents = test_documents, !.labels = test_labels]
    IN  IF Len(test_documents) # Len(test_labels)
        THEN [base EXCEPT !.outcome = "DimensionMismatch"]
        ELSE
        LET preds  == [i \in DOMAIN test_documents |-> PredictResult(test_documents[i])]
            failed == {i \in DOMAIN preds : preds[i].outcome # "ok"}
            correct == Cardinality({i \in DOMAIN preds : preds[i].label = test_labels[i]})
        IN  IF failed # {}
            THEN [base EXCEPT !.outcome =
                      preds[CHOOSE i \in failed : \A j \in failed : i <= j].outcome]
            ELSE IF Len(test_documents) = 0
            THEN [base EXCEPT !.outcome = "ZeroDivisionError"]
            ELSE [base EXCEPT
                     !.accuracy = Rat(correct, Len(test_documents)),
                     !.predictions = [i \in DOMAIN preds |-> preds[i].label]]

\* evaluate(test_documents, test_labels), on test sets of equal length and
\* on label sequences of every other length.
Evaluate ==
    /\ Idle
    /\ \E test_documents \in SeqsUpTo(TrainDocs, MaxTest) :
          \E test_labels \in LabelSeqs(test_documents, MaxTest) :
              /\ result' = EvaluateResult(test_documents, test_labels)
              /\ UNCHANGED <<application, alpha, use_ngrams,
                             class_priors, word_likelihoods,
                             vocab, is_trained, vectorizer, word_counts>>

----------------------------------------------------------------------------
(* The classifier under any sequence of calls *)

\* The caller takes the outcome of the call; the next call can begin.
Return ==
    /\ ~Idle
    /\ result' = NoResult
    /\ UNCHANGED <<application, alpha, use_ngrams,
                   class_priors, word_likelihoods, vocab,
                   is_trained, vectorizer, word_counts>>

Next == Train \/ Predict \/ Evaluate \/ Return

Spec == Init /\ [][Next]_vars

----------------------------------------------------------------------------
(* Properties of train *)

TrainReturned == result.op = "train" /\ result.outcome = "ok"

\* The features of the documents of a corpus that carry the label, with
\* their multiplicity.
CorpusFeatures(documents, labels, label) ==
    Concat([i \in DOMAIN documents |->
              IF labels[i] = label
              THEN TrainFeatures(documents[i], vectorizer.vocabulary) ELSE <<>>])

\* (count + alpha) / (total + alpha * vocab_size)
Smoothed(count, total, vocab_size) ==
    <<count * alpha[2] + alpha[1], total * alpha[2] + alpha[1] * vocab_size>>

\* C1: after train returns, every label of the corpus has, for every feature
\* of the vocabulary, the likelihood (count(L,f) + alpha) / (T_L + alpha * |V|),
\* count(L,f) being the occurrences of f in the documents labelled L and T_L
\* the number of feature occurrences in those documents.
C1_LikelihoodFormula ==
    TrainReturned =>
        \A label \in Range(result.labels) : \A f \in vocab :
            LET feats == CorpusFeatures(result.documents, result.labels, label)
            IN  /\ label \in DOMAIN word_likelihoods
                /\ f \in DOMAIN word_likelihoods[label]
                /\ REq(word_likelihoods[label][f],
                       Smoothed(CountIn(feats, f), Len(feats), Cardinality(vocab)))

\* A train with alpha = 1/2 over two labels in which a feature occurs under
\* one label, beside another feature, and never under the other label.
C1_Witness ==
    /\ TrainReturned
    /\ alpha = RHalf
    /\ \E l1, l2 \in Range(result.labels) : \E f \in vocab :
          /\ CountIn(CorpusFeatures(result.documents, result.labels, l1), f) = 1
          /\ Len(CorpusFeatures(result.documents, result.labels, l1)) >= 2
          /\ CountIn(CorpusFeatures(result.documents, result.labels, l2), f) = 0

\* C3 as stated: in every trained model every likelihood is strictly
\* between 0 and 1.
C3_StrictlyBetween0And1 ==
    is_trained =>
        \A label \in DOMAIN word_likelihoods :
            \A f \in DOMAIN word_likelihoods[label] :
                /\ RLess(RZero, word_likelihoods[label][f])
                /\ RLess(word_likelihoods[label][f], ROne)

\* C3, amended: in every trained model every likelihood is strictly greater
\* than 0; it is strictly less than 1 when the vocabulary has at least two
\* features, and it is 1 when the vocabulary has a single feature.
C3_PositiveAndBelow1From2Features ==
    is_trained =>
        \A label \in DOMAIN word_likelihoods :
            LET row == word_likelihoods[label]
            IN  \A f \in DOMAIN row :
                    /\ RLess(RZero, row[f])
                    /\ Cardinality(DOMAIN row) >= 2 => RLess(row[f], ROne)
                    /\ Cardinality(DOMAIN row) = 1 => REq(row[f], ROne)

\* A trained model with at least two features, one of them never seen
\* under one of the labels.
C3_Witness ==
    /\ is_trained
    /\ Cardinality(vocab) >= 2
    /\ \E label \in DOMAIN word_likelihoods : \E f \in vocab :
          /\ label \in DOMAIN word_counts
          /\ f \in DOMAIN word_likelihoods[label]
          /\ CountOf(word_counts, label, f) = 0

\* C8: a train call with len(documents) # len(labels) raises the
\* dimension-mismatch error and changes none of class_priors,
\* word_likelihoods, vocab and is_trained.
C8_MismatchLeavesModel ==
    [][(result'.op = "train" /\ Len(result'.documents) # Len(result'.labels))
          => /\ result'.outcome = "DimensionMismatch"
             /\ UNCHANGED model]_vars

\* A trained classifier on which a train call has just raised the
\* dimension-mismatch error.
C8_Witness ==
    /\ result.op = "train"
    /\ result.outcome = "DimensionMismatch"
    /\ Len(result.documents) # Len(result.labels)
    /\ is_trained
    /\ vocab # {}

\* C10: after every train call that returns, the vocabulary is not empty.
C10_VocabularyNonEmpty == TrainReturned => vocab # {}

----------------------------------------------------------------------------
(* Properties of predict and evaluate *)

PredictReturned == result.op = "predict" /\ result.outcome = "ok"

\* C2: in predict, a feature absent from a label's likelihood table is
\* scored with alpha / (T_L + alpha * |V|), T_L being the number of feature
\* occurrences counted for the label in training.
C2_FallbackUsesTrainingTotal ==
    (PredictReturned /\ result.scored) =>
        \A label \in KeySet(class_priors) \cap DOMAIN word_counts :
            \A i \in DOMAIN Value(result.contributions, label) :
                LET entry == Value(result.contributions, label)[i]
                IN  entry[1] \notin DOMAIN word_likelihoods[label] =>
                        REq(entry[2],
                            Smoothed(0, TotalWordsInClass(word_counts, label),
                                     Cardinality(vocab)))

\* C4: the distribution predict returns has only non-negative (and finite)
\* probabilities, and they sum to 1.
C4_DistributionSumsTo1 ==
    PredictReturned =>
        /\ \A i \in DOMAIN result.probabilities :
              /\ result.probabilities[i][2][1] >= 0
              /\ result.probabilities[i][2][2] > 0
        /\ REq(RSum([i \in DOMAIN result.probabilities |->
                        result.probabilities[i][2]]), ROne)

\* A scored prediction over two labels with unequal probabilities.
C4_Witness ==
    /\ PredictReturned
    /\ result.scored
    /\ Len(result.probabilities) = 2
    /\ RLess(result.probabilities[1][2], result.probabilities[2][2])

\* C5: for a non-empty document predict returns a label of maximal
\* accumulated log-score, and among the labels of maximal score the lowest.
C5_ArgMaxLowestLabel ==
    (PredictReturned /\ result.scored) =>
        LET score == [i \in DOMAIN result.log_probs |-> result.log_probs[i][2]]
            best  == {i \in DOMAIN score : \A j \in DOMAIN score : ~RLess(score[i], score[j])}
        IN  /\ \E i \in best : result.log_probs[i][1] = result.label
            /\ \A i \in best : result.label <= result.log_probs[i][1]

\* C6: on a trained two-class model, predict on a document that is None,
\* empty or whitespace-only returns {0: 0.5, 1: 0.5} and no contributions,
\* and does not run the scoring loop.
C6_EmptyDocumentUniform ==
    (/\ result.op = "predict"
     /\ is_trained
     /\ Len(class_priors) = 2
     /\ (~result.document.isstr \/ IsBlank(result.document.text))) =>
        /\ result.outcome = "ok"
        /\ result.probabilities = << <<0, RHalf>>, <<1, RHalf>> >>
        /\ result.contributions = <<>>
        /\ ~result.scored

\* A trained two-class model asked to predict a whitespace-only document.
C6_Witness ==
    /\ result.op = "predict"
    /\ is_trained
    /\ Len(class_priors) = 2
    /\ result.document = Str(<<" ">>)

\* The features of a document before any filtering by the vocabulary.
RawFeatures(doc) == IF use_ngrams THEN Analyze(doc) ELSE Tokenize(doc)

\* C7: on a model trained with alpha = 1, predicting a document of a single
\* token never seen in training raises nothing and gives every class a
\* strictly positive (finite) probability.
C7_UnseenTokenScored ==
    (/\ result.op = "predict"
     /\ is_trained
     /\ alpha = ROne
     /\ result.document.isstr
     /\ Len(RawFeatures(result.document)) = 1
     /\ RawFeatures(result.document)[1] \notin vocab) =>
        /\ result.outcome = "ok"
        /\ KeySet(result.probabilities) = KeySet(class_priors)
        /\ \A i \in DOMAIN result.probabilities :
              /\ result.probabilities[i][2][1] > 0
              /\ result.probabilities[i][2][2] > 0

\* C9: predict, for every document, and evaluate, for every test set of
\* equal lengths, raise the not-trained error on a classifier that is not
\* trained.
C9_NotTrainedError ==
    (/\ ~is_trained
     /\ \/ result.op = "predict"
        \/ result.op = "evaluate" /\ Len(result.documents) = Len(result.labels)) =>
        result.outcome = "NotTrained"

----------------------------------------------------------------------------
(* Properties of the trained state *)

\* C11: in every state in which is_trained is true, whatever train calls
\* led to it, every label of class_priors has a row in word_likelihoods
\* and the keys of that row are exactly the vocabulary.
C11_EveryLabelHasFullRow ==
    is_trained =>
        \A label \in KeySet(class_priors) :
            /\ label \in DOMAIN word_likelihoods
            /\ DOMAIN word_likelihoods[label] = vocab

\* C12: after a train call that returns, class_priors has exactly the
\* labels of the corpus as keys, the prior of a label is the number of
\* documents with that label over the number of documents, every prior is
\* in (0, 1], and the priors sum to 1.
C12_PriorsAreLabelFrequencies ==
    TrainReturned =>
        /\ KeySet(class_priors) = Range(result.labels)
        /\ \A i \in DOMAIN class_priors :
              /\ class_priors[i][2][1] * Len(result.labels)
                    = CountIn(result.labels, class_priors[i][1]) * class_priors[i][2][2]
              /\ RLess(RZero, class_priors[i][2])
              /\ ~RLess(ROne, class_priors[i][2])
        /\ REq(RSum([i \in DOMAIN class_priors |-> class_priors[i][2]]), ROne)

\* C13: after a train call that returns, however many train calls came
\* before it on the same object, the vocabulary is exactly the set of
\* features of the documents of that call.
C13_VocabularyOfLastCorpus ==
    TrainReturned =>
        vocab = UNION {Range(RawFeatures(result.documents[i])) :
                          i \in DOMAIN result.documents}

\* C14: a call of predict or evaluate, whether it returns or raises, leaves
\* class_priors, word_likelihoods, vocab, alpha, use_ngrams and is_trained
\* as they were before the call.
C14_InferenceLeavesModel ==
    [][result'.op \in {"predict", "evaluate"}
          => UNCHANGED <<class_priors, word_likelihoods, vocab, alpha,
                         use_ngrams, is_trained>>]_vars

\* evaluate raised on a trained model, with the error of its predict call.
C14_Witness ==
    /\ is_trained
    /\ result.op = "evaluate"
    /\ result.outcome = "KeyError"
    /\ vocab # {}

----------------------------------------------------------------------------
(* Training again on the same corpus in another order *)

\* The orders in which n (document, label) pairs can be given.
Orders(n) ==
    {p \in [1..n -> 1..n] : \A i, j \in 1..n : i # j => p[i] # p[j]}

Permuted(seq, p) == [i \in DOMAIN seq |-> seq[p[i]]]

\* The caller that has just trained on a corpus calls train again with the
\* same (document, label) pairs in some order.
TrainPermuted ==
    /\ TrainReturned
    /\ \E p \in Orders(Len(result.documents)) :
          TrainCall(Permuted(result.documents, p), Permuted(result.labels, p))
    /\ UNCHANGED application

NextRetrain == Train \/ TrainPermuted \/ Predict \/ Evaluate \/ Return

SpecRetrain == Init /\ [][NextRetrain]_vars

\* Two dicts with the same keys and the same value for every key.
SameDict(d1, d2) ==
    /\ KeySet(d1) = KeySet(d2)
    /\ \A k \in KeySet(d1) : Value(d1, k) = Value(d2, k)

\* Both ends of the step are returns of train, on the same pairs.
PermutedStep ==
    /\ TrainReturned
    /\ TrainReturned'
    /\ \E p \in Orders(Len(result.documents)) :
          /\ result'.documents = Permuted(result.documents, p)
          /\ result'.labels = Permuted(result.labels, p)

\* C15: training on a permutation of the (document, label) pairs of a
\* corpus gives the same class priors, likelihoods and vocabulary, and for
\* every document the two models predict the same label and distribution.
\* The two models differ at most in the order of class_priors, so the
\* prediction of the second is that of the first with the labels visited
\* in the second's order.
C15_OrderIndependent ==
    [][PermutedStep =>
          /\ SameDict(class_priors, class_priors')
          /\ UNCHANGED <<word_likelihoods, vocab, vectorizer, alpha,
                         use_ngrams, is_trained>>
          /\ \A document \in PredictDocs :
                LET first  == PredictResult(document)
                    second == PredictResultIn(Keys(class_priors'), document)
                IN  /\ first.outcome = second.outcome
                    /\ first.label = second.label
                    /\ SameDict(first.probabilities, second.probabilities)]_vars

----------------------------------------------------------------------------
(* The end-to-end scenario: a unigram classifier, the two documents of the
   scenario as corpus, and predictions for them and for the query. *)

InitScenario == Init /\ use_ngrams = FALSE

TrainScenario ==
    /\ Idle
    /\ \E documents \in [1..2 -> ScenarioDocs] :
          \E labels \in [1..2 -> Labels] :
              TrainCall(documents, labels)
    /\ UNCHANGED application

PredictScenario ==
    \E document \in ScenarioDocs \cup {ScenarioQuery} :
        /\ Idle
        /\ result' = PredictResult(document)
        /\ UNCHANGED <<application, alpha, use_ngrams,
                       class_priors, word_likelihoods, vocab,
                       is_trained, vectorizer, word_counts>>

NextScenario == TrainScenario \/ PredictScenario \/ Return

SpecScenario == InitScenario /\ [][NextScenario]_vars

\* The model is the one that train builds, with alpha = 1.0 and unigrams,
\* from [("free miracle cure click now", 1),
\*       ("senate passes bipartisan budget bill", 0)].
TrainedOnScenario ==
    /\ is_trained
    /\ alpha = ROne
    /\ ~use_ngrams
    /\ class_priors = ClassPriors(<<ScenarioFake, ScenarioReal>>, <<1, 0>>)
    /\ word_counts = WordCounts(<<ScenarioFake, ScenarioReal>>, <<1, 0>>, {})

\* C16: the classifier trained on the scenario's corpus predicts label 0
\* for "bipartisan senate vote", with a probability for label 0 strictly
\* greater than 0.5.
C16_ScenarioPredictsReal ==
    (TrainedOnScenario /\ result.op = "predict" /\ result.document = ScenarioQuery)
        => /\ result.outcome = "ok"
           /\ result.label = 0
           /\ RLess(RHalf, Value(result.probabilities, 0))

\* The prediction of the scenario: label 0 with probability 4/5.
C16_Witness ==
    /\ TrainedOnScenario
    /\ result.op = "predict"
    /\ result.document = ScenarioQuery
    /\ result.label = 0
    /\ Value(result.probabilities, 0) = <<4, 5>>
    /\ Cardinality(vocab) = 10

----------------------------------------------------------------------------
(* Training on a corpus of two classes that share no token, and evaluating
   on that corpus *)

InitSeparable == Init /\ alpha = ROne

\* The documents a corpus takes for a label.  The longer document is in
\* the corpora of the n-gram configuration only, where predict scores each
\* feature of a document once: scoring each of its occurrences, as the
\* unigram configuration does, takes the exact products beyond the
\* integers TLC computes with.
SeparableDocs(label) ==
    IF label = 0
    THEN ClassZeroDocs \cup (IF use_ngrams THEN {LongDoc} ELSE {})
    ELSE ClassOneDocs

\* train on four documents, two of each class, in any order.
TrainSeparable ==
    /\ Idle
    /\ \E labels \in {ls \in [1..4 -> Labels] : CountIn(ls, 0) = 2} :
          \E documents \in [1..4 -> SeparableDocs(0) \cup SeparableDocs(1)] :
              /\ \A i \in 1..4 : documents[i] \in SeparableDocs(labels[i])
              /\ TrainCall(documents, labels)
    /\ UNCHANGED application

\* The caller that has just trained on a corpus evaluates on it.
EvaluateTrained ==
    /\ TrainReturned
    /\ result' = EvaluateResult(result.documents, result.labels)
    /\ UNCHANGED <<application, alpha, use_ngrams,
                   class_priors, word_likelihoods, vocab,
                   is_trained, vectorizer, word_counts>>

NextSeparable == TrainSeparable \/ EvaluateTrained \/ Return

SpecSeparable == InitSeparable /\ [][NextSeparable]_vars

\* Four documents, two per class, no feature in documents of both classes.
Separable(documents, labels) ==
    /\ Len(documents) = 4
    /\ Len(labels) = 4
    /\ \A label \in Labels : CountIn(labels, label) = 2
    /\ \A i, j \in 1..4 :
          labels[i] # labels[j] =>
              Range(RawFeatures(documents[i])) \cap Range(RawFeatures(documents[j])) = {}

\* evaluate was called on the separable corpus the model was trained on.
EvaluatedOnTrainingCorpus ==
    /\ result.op = "evaluate"
    /\ is_trained
    /\ Separable(result.documents, result.labels)
    /\ word_counts = WordCounts(result.documents, result.labels, vectorizer.vocabulary)

\* C17 as stated: for every separable corpus of 4 documents in 2 classes,
\* whatever the length of its documents (none without a feature) and the
\* repetition of tokens in them, a classifier trained on it (and on
\* nothing before it) has accuracy 1.0 on it.
C17_SeparableAccuracy1 ==
    (/\ EvaluatedOnTrainingCorpus
     /\ \A i \in 1..4 : RawFeatures(result.documents[i]) # <<>>
     /\ vocab = UNION {DOMAIN word_counts[label] : label \in DOMAIN word_counts})
        => /\ result.outcome = "ok"
           /\ result.accuracy = ROne

\* C17, amended: for every separable corpus of 4 documents in 2 classes in
\* which every document has at least one feature and the two classes have
\* the same number of feature occurrences, a classifier trained on it has
\* accuracy 1.0 on it.
C17_SeparableEqualTotalsAccuracy1 ==
    (/\ EvaluatedOnTrainingCorpus
     /\ \A i \in 1..4 : RawFeatures(result.documents[i]) # <<>>
     /\ TotalWordsInClass(word_counts, 0) = TotalWordsInClass(word_counts, 1))
        => /\ result.outcome = "ok"
           /\ result.accuracy = ROne
           /\ result.predictions = result.labels

\* Accuracy 1.0 on a corpus with equal totals and a repeated token.
C17_Witness ==
    /\ EvaluatedOnTrainingCorpus
    /\ \A i \in 1..4 : RawFeatures(result.documents[i]) # <<>>
    /\ TotalWordsInClass(word_counts, 0) = TotalWordsInClass(word_counts, 1)
    /\ \E i \in 1..4 :
          Len(RawFeatures(result.documents[i]))
              > Cardinality(Range(RawFeatures(result.documents[i])))
    /\ result.accuracy = ROne

----------------------------------------------------------------------------
(* The features of a document: preprocess_text, and the features that
   train and predict count in the configuration of the classifier *)

\* preprocess_text(text)
PreprocessText ==
    /\ Idle
    /\ \E doc \in {Str(text) : text \in TokenizerTexts} \cup {NoneDoc} :
          result' = [NoResult EXCEPT !.op = "preprocess_text",
                         !.document = doc,
                         !.tokens = preprocess_text(doc)]
    /\ UNCHANGED <<application, alpha, use_ngrams,
                   class_priors, word_likelihoods, vocab,
                   is_trained, vectorizer, word_counts>>

\* The features train counts for a document of its corpus, and predict
\* looks up for a document of that corpus: the analyzer of the vectorizer
\* fitted on it, or the tokens of preprocess_text.
ExtractFeatures ==
    /\ Idle
    /\ \E text \in TokenizerTexts :
          result' = [NoResult EXCEPT !.op = "features",
                         !.document = Str(text),
                         !.features = IF use_ngrams
                                      THEN VectorizerFeatures(text)
                                      ELSE preprocess_text(Str(text))]
    /\ UNCHANGED <<application, alpha, use_ngrams,
                   class_priors, word_likelihoods, vocab,
                   is_trained, vectorizer, word_counts>>

NextTokenizer == PreprocessText \/ ExtractFeatures \/ Return

SpecTokenizer == Init /\ [][NextTokenizer]_vars

NOT(word) == <<"N", "O", "T", "_">> \o word

\* C18: the tokens of "this is not good." contain NOT_good and no bare
\* good; the tokens of "not good, but fine" contain the bare fine and no
\* NOT_fine.
C18_NegationScopeExamples ==
    result.op = "preprocess_text" =>
        /\ result.document = Str(NotGoodText) =>
              /\ NOT(<<"g", "o", "o", "d">>) \in Range(result.tokens)
              /\ <<"g", "o", "o", "d">> \notin Range(result.tokens)
        /\ result.document = Str(ButFineText) =>
              /\ <<"f", "i", "n", "e">> \in Range(result.tokens)
              /\ NOT(<<"f", "i", "n", "e">>) \notin Range(result.tokens)

\* The tokens of "not good, but fine".
C18_Witness ==
    /\ result.op = "preprocess_text"
    /\ result.document = Str(ButFineText)
    /\ result.tokens = << <<"n", "o", "t">>, NOT(<<"g", "o", "o", "d">>),
                          <<"b", "u", "t">>, <<"f", "i", "n", "e">> >>

\* A whitespace-delimited piece of a text that is a negation cue, or a
\* punctuation mark.
IsCue(atom) == \E k \in DOMAIN NegationCues : NegationCues[k] = atom
IsMark(atom) == Len(atom) = 1 /\ IsPunct(atom[1])

\* No clause of the text has two cues: between any two cues there is a
\* punctuation mark.
CuesInSeparateClauses(atoms) ==
    \A i, j \in DOMAIN atoms :
        (i < j /\ IsCue(atoms[i]) /\ IsCue(atoms[j]))
            => \E k \in (i + 1)..(j - 1) : IsMark(atoms[k])

\* The tokens of a text with the scope of every cue marked: a cue opens a
\* scope and stays as it is, a punctuation mark closes the scope, and the
\* words are prefixed with NOT_ inside a scope and unchanged outside.
RECURSIVE ScopedTokens(_, _)
ScopedTokens(atoms, negating) ==
    IF atoms = <<>> THEN <<>>
    ELSE IF IsMark(Head(atoms)) THEN ScopedTokens(Tail(atoms), FALSE)
    ELSE IF IsCue(Head(atoms)) /\ ~negating
         THEN <<Head(atoms)>> \o ScopedTokens(Tail(atoms), TRUE)
    ELSE <<IF negating THEN NOT(Head(atoms)) ELSE Head(atoms)>>
            \o ScopedTokens(Tail(atoms), negating)

\* C19: for every text whose cues are in separate clauses, preprocess_text
\* prefixes with NOT_ exactly the tokens between a cue (the first or a
\* later one) and the next punctuation mark or the end of the text, and
\* leaves the cues and the tokens outside every scope as they are.
C19_ScopeOfEveryCue ==
    (/\ result.op = "preprocess_text"
     /\ result.document.isstr
     /\ result.document.text \notin {NotGoodText, ButFineText}
     /\ CuesInSeparateClauses(Split(result.document.text)))
        => result.tokens = ScopedTokens(Split(result.document.text), FALSE)

\* The features, with their multiplicity, are the same.
SameFeatures(s, t) ==
    \A f \in Range(s) \cup Range(t) : CountIn(s, f) = CountIn(t, f)

\* The tokens, and every pair of adjacent tokens joined by a space.
WithPairs(tokens) ==
    tokens \o [i \in 1..(Len(tokens) - 1) |-> tokens[i] \o <<" ">> \o tokens[i + 1]]

\* C20: in the n-gram configuration the features of a document are the
\* tokens preprocess_text emits for it and every pair of adjacent tokens
\* joined into one feature.
C20_NgramFeaturesFromTokenizer ==
    (result.op = "features" /\ use_ngrams)
        => SameFeatures(result.features, WithPairs(preprocess_text(result.document)))

----------------------------------------------------------------------------
(* get_top_features *)

\* abs(contribution) of the contribution math.log(p): the log of p or of
\* 1/p, whichever is not below 1.
AbsLog(p) == IF RLess(p, ROne) THEN <<p[2], p[1]>> ELSE p

\* sorted(items, key=lambda x: abs(x[1]), reverse=True): descending by
\* absolute contribution, items of equal key in their original order.
SortedByAbs(items) ==
    LET before(j, i) == \/ RLess(AbsLog(items[i][2]), AbsLog(items[j][2]))
                        \/ /\ REq(AbsLog(items[i][2]), AbsLog(items[j][2]))
                           /\ j < i
        rank(i) == Cardinality({j \in DOMAIN items : before(j, i)})
    IN  [r \in DOMAIN items |-> items[CHOOSE i \in DOMAIN items : rank(i) + 1 = r]]

\* get_top_features(feature_contributions, predicted_class, top_n): the
\* fields of result it sets.
TopFeaturesResult(feature_contributions, predicted_class, top_n) ==
    LET base == [result EXCEPT !.op = "get_top_features", !.top_n = top_n]
    IN  IF predicted_class \notin KeySet(feature_contributions)
        THEN [base EXCEPT !.outcome = "KeyError"]
        ELSE [base EXCEPT !.top_features =
                 Slice(SortedByAbs(Value(feature_contributions, predicted_class)),
                       0, top_n)]

\* The caller of predict passes what it returned to get_top_features.
GetTopFeatures ==
    \E top_n \in 0..MaxTop :
        /\ PredictReturned
        /\ result' = TopFeaturesResult(result.contributions, result.label, top_n)
        /\ UNCHANGED <<application, alpha, use_ngrams,
                       class_priors, word_likelihoods, vocab,
                       is_trained, vectorizer, word_counts>>

NextTopFeatures == Train \/ Predict \/ GetTopFeatures \/ Return

SpecTopFeatures == Init /\ [][NextTopFeatures]_vars

\* C21: for the contributions and the label of every prediction and every
\* n >= 0, get_top_features returns at most n entries, all of them entries
\* of the predicted label's contributions, in order of non-increasing
\* absolute contribution, and no entry it leaves out has a larger absolute
\* contribution than one it returns.
C21_TopFeatures ==
    result.op = "get_top_features" =>
        /\ result.outcome = "ok"
        /\ LET top == result.top_features
               all == Value(result.contributions, result.label)
           IN  /\ Len(top) <= result.top_n
               /\ Range(top) \subseteq Range(all)
               /\ \A i, j \in DOMAIN top :
                     i < j => ~RLess(AbsLog(top[i][2]), AbsLog(top[j][2]))
               /\ \A e \in Range(all) \ Range(top) : \A t \in Range(top) :
                     ~RLess(AbsLog(t[2]), AbsLog(e[2]))

----------------------------------------------------------------------------
(* The labels of a prediction *)

\* C25: the label predict returns and every key of the distribution it
\* returns are labels observed in training, the keys of class_priors, and
\* the distribution has one entry for each of these labels; the empty
\* document included.
C25_LabelsObservedInTraining ==
    PredictReturned =>
        /\ result.label \in KeySet(class_priors)
        /\ KeySet(result.probabilities) = KeySet(class_priors)
        /\ Len(result.probabilities) = Len(class_priors)

----------------------------------------------------------------------------
(* The likelihoods of a label as a distribution over the vocabulary *)

----------------------------------------------------------------------------
(* Tokens outside the vocabulary *)

InitUnigram == Init /\ use_ngrams = FALSE

\* predict(document) on the documents given to predict and on documents with
\* a token no corpus has.
PredictUnknown ==
    \E document \in PredictDocs \cup UnknownDocs :
        /\ Idle
        /\ result' = PredictResult(document)
        /\ UNCHANGED <<application, alpha, use_ngrams,
                       class_priors, word_likelihoods, vocab,
                       is_trained, vectorizer, word_counts>>

NextUnigram == Train \/ PredictUnknown \/ Return

SpecUnigram == InitUnigram /\ [][NextUnigram]_vars

\* The tokens of a document that are in the vocabulary, in their order.
KnownTokens(doc) == SelectSeq(Tokenize(doc), LAMBDA token : token \in vocab)

\* predict returns for other the label and the distribution it has returned
\* for the document of result.
SamePrediction(other) ==
    LET r == PredictResult(other)
    IN  /\ r.outcome = "ok"
        /\ r.label = result.label
        /\ r.probabilities = result.probabilities

----------------------------------------------------------------------------
(* The model artifact: train_nb_classifier.main and detect_fake_news_with_nb *)

\* The largest top_n the application asks for.
TopN == 10

\* The most articles given to detect_fake_news_with_nb.
MaxArticles == 2

\* The text column of data/WELFake_Dataset.csv after dropna.
CsvDocs == { Str(<<" ">>), Str(<<"A", "a">>), Str(<<"a", "a", " ", "b", "b">>) }

\* What load_training_data returns.
CsvCorpora ==
    UNION { { [documents |-> documents, labels |-> labels] :
                labels \in [DOMAIN documents -> Labels] } :
            documents \in SeqsUpTo(CsvDocs, MaxDocs) }

\* The instance __dict__ that joblib.dump pickles, in the order of __init__.
Pickle ==
    << <<"alpha", alpha>>,
       <<"class_priors", class_priors>>,
       <<"word_likelihoods", word_likelihoods>>,
       <<"vocab", vocab>>,
       <<"is_trained", is_trained>>,
       <<"use_ngrams", use_ngrams>>,
       <<"vectorizer", vectorizer>> >>

\* The attributes of the object joblib.load returns, the vectorizer being
\* built anew by __init__.
UnpickleNewVectorizer(fields) ==
    [ alpha            |-> Value(fields, "alpha"),
      class_priors     |-> Value(fields, "class_priors"),
      word_likelihoods |-> Value(fields, "word_likelihoods"),
      vocab            |-> Value(fields, "vocab"),
      is_trained       |-> Value(fields, "is_trained"),
      use_ngrams       |-> Value(fields, "use_ngrams"),
      vectorizer       |-> [fitted |-> FALSE, vocabulary |-> {}] ]

\* The attributes of the object joblib.load returns: unpickling sets the
\* pickled __dict__ without calling __init__.
Unpickle(fields) ==
    [ alpha            |-> Value(fields, "alpha"),
      class_priors     |-> Value(fields, "class_priors"),
      word_likelihoods |-> Value(fields, "word_likelihoods"),
      vocab            |-> Value(fields, "vocab"),
      is_trained       |-> Value(fields, "is_trained"),
      use_ngrams       |-> Value(fields, "use_ngrams"),
      vectorizer       |-> Value(fields, "vectorizer") ]

\* The attributes of the classifier object.
Attributes ==
    [ alpha            |-> alpha,
      class_priors     |-> class_priors,
      word_likelihoods |-> word_likelihoods,
      vocab            |-> vocab,
      is_trained       |-> is_trained,
      use_ngrams       |-> use_ngrams,
      vectorizer       |-> vectorizer ]

\* What predict returns to its caller for each document.
Predictions ==
    [document \in PredictDocs |->
        LET r == PredictResult(document)
        IN  [outcome |-> r.outcome, label |-> r.label,
             probabilities |-> r.probabilities]]

\* NaiveBayesClassifier(alpha=1.0, use_ngrams=True)
Construct ==
    /\ alpha' = ROne
    /\ use_ngrams' = TRUE
    /\ class_priors' = <<>>
    /\ word_likelihoods' = <<>>
    /\ vocab' = {}
    /\ is_trained' = FALSE
    /\ vectorizer' = [fitted |-> FALSE, vocabulary |-> {}]
    /\ word_counts' = <<>>

\* The file at the model path is deleted or overwritten by something else.
ArtifactDamaged ==
    /\ program.pc = "idle"
    /\ artifact.state = "pickle"
    /\ \E state \in {"missing", "corrupt"} :
          artifact' = [state |-> state, fields |-> <<>>]
    /\ UNCHANGED <<alpha, use_ngrams, class_priors, word_likelihoods, vocab,
                   is_trained, vectorizer, word_counts, result, program, original,
                   scraper>>

\* train_nb_classifier.main up to the construction of classifier_ngrams;
\* without the csv file it returns at once.
TrainScript ==
    /\ program.pc = "idle"
    /\ Construct
    /\ program' = [NoProgram EXCEPT !.main = "train_nb_classifier", !.pc = "train"]
    /\ UNCHANGED <<result, artifact, original, scraper>>

\* detect_fake_news_with_nb up to the first article: joblib.load, and if it
\* raises, the csv file missing or unreadable (the articles are returned as
\* they are) or the construction of a new classifier.
DetectLoad ==
    /\ program.pc = "idle"
    /\ LET detect == [NoProgram EXCEPT !.main = "detect_fake_news_with_nb"]
       IN  IF artifact.state = "pickle"
           THEN LET loaded == Unpickle(artifact.fields)
                IN  /\ alpha' = loaded.alpha
                    /\ use_ngrams' = loaded.use_ngrams
                    /\ class_priors' = loaded.class_priors
                    /\ word_likelihoods' = loaded.word_likelihoods
                    /\ vocab' = loaded.vocab
                    /\ is_trained' = loaded.is_trained
                    /\ vectorizer' = loaded.vectorizer
                    /\ word_counts' = <<>>
                    /\ program' = [detect EXCEPT !.pc = "annotate", !.loaded = TRUE]
           ELSE \/ /\ Construct
                   /\ program' = [detect EXCEPT !.pc = "train"]
                \/ \E articles_data \in SeqsUpTo(Articles, MaxArticles) :
                      /\ program' = [detect EXCEPT !.pc = "returned",
                                        !.outcome = "returned",
                                        !.articles_data = articles_data]
                      /\ UNCHANGED <<alpha, use_ngrams, class_priors,
                                     word_likelihoods, vocab, is_trained,
                                     vectorizer, word_counts>>
    /\ UNCHANGED <<result, artifact, original, scraper>>

\* classifier.train(documents, labels) on what load_training_data returned.
ProgramTrain ==
    /\ program.pc = "train"
    /\ \E corpus \in CsvCorpora : TrainCall(corpus.documents, corpus.labels)
    /\ program' = [program EXCEPT !.pc = "dump"]
    /\ UNCHANGED <<artifact, original, scraper>>

\* After train: joblib.dump(classifier, model_path), which writes the file
\* or raises.  An exception of train or dump ends train_nb_classifier.main
\* and makes detect_fake_news_with_nb return the articles as they are.
ProgramDump ==
    /\ program.pc = "dump"
    /\ result' = NoResult
    /\ \E written \in BOOLEAN :
          IF result.outcome = "ok" /\ written
          THEN /\ artifact' = [state |-> "pickle", fields |-> Pickle]
               /\ original' = [fields |-> Attributes,
                               predictions |-> Predictions]
               /\ program' = IF program.main = "detect_fake_news_with_nb"
                             THEN [program EXCEPT !.pc = "annotate"]
                             ELSE NoProgram
          ELSE /\ UNCHANGED <<artifact, original>>
               /\ IF program.main = "detect_fake_news_with_nb"
                  THEN \E articles_data \in SeqsUpTo(Articles, MaxArticles) :
                          program' = [program EXCEPT !.pc = "returned",
                                          !.outcome = "returned",
                                          !.articles_data = articles_data]
                  ELSE program' = NoProgram
    /\ UNCHANGED <<alpha, use_ngrams, class_priors, word_likelihoods, vocab,
                   is_trained, vectorizer, word_counts, scraper>>

\* The prediction fields of an article whose text is empty (lines 265-271)
\* or whose analysis raised (lines 298-305).
Neutral(article, label) ==
    [article EXCEPT !.annotated = TRUE,
                    !.Prediction = "Unknown",
                    !.Fake_Probability = RHalf,
                    !.Real_Probability = RHalf,
                    !.Confidence = RHalf,
                    !.Fake_News_Label = label,
                    !.Key_Features = <<>>]

\* probabilities.get(label, 0.5)
ProbabilityOf(probabilities, label) ==
    IF label \in KeySet(probabilities) THEN Value(probabilities, label) ELSE RHalf

\* The try of lines 275-306 for what predict returned or raised: the
\* prediction fields, or the neutral fields of the except branch.
Analyzed(article, r) ==
    LET top == TopFeaturesResult(r.contributions, r.label, TopN)
    IN  IF r.outcome # "ok" \/ top.outcome # "ok"
        THEN Neutral(article, "ANALYSIS FAILED")
        ELSE [article EXCEPT
                 !.annotated = TRUE,
                 !.Prediction = IF r.label = 1 THEN "Fake" ELSE "Real",
                 !.Fake_Probability = ProbabilityOf(r.probabilities, 1),
                 !.Real_Probability = ProbabilityOf(r.probabilities, 0),
                 !.Confidence = MaxLogProb(r.probabilities),
                 !.Fake_News_Label = IF r.label = 1 THEN "POTENTIALLY FAKE"
                                     ELSE "LIKELY REAL",
                 !.Key_Features = top.top_features]

\* One pass of the loop over articles_data (lines 253-306): the article with
\* its prediction fields, or the exception that leaves the loop.
AnnotateArticle(article) ==
    LET text == ArticleText(article)
        raised(exception) == [raised |-> exception, article |-> article]
        done(annotated) == [raised |-> "none", article |-> annotated]
    IN  IF text.kind = "KeyError" THEN raised("KeyError")
        ELSE IF text.kind = "number" THEN raised("AttributeError")
        ELSE IF text.text = <<"n", "a", "n">> \/ IsBlank(text.text)
        THEN IF article.Title.kind = "absent" THEN raised("KeyError")
             ELSE done(Neutral(article, "NO CONTENT"))
        ELSE done(Analyzed(article, PredictResult(Str(text.text))))

\* What the loop over articles_data leaves, passes being the outcome of
\* each pass on its own: the articles before the first exception have
\* their prediction fields, the exception leaves the function.
LoopOver(articles_data, passes) ==
    LET failed == {i \in DOMAIN passes : passes[i].raised # "none"}
        first  == IF failed = {} THEN Len(articles_data) + 1
                  ELSE CHOOSE i \in failed : \A j \in failed : i <= j
    IN  [program EXCEPT
            !.pc = "returned",
            !.outcome = IF failed = {} THEN "returned"
                        ELSE passes[first].raised,
            !.articles_data =
                [i \in DOMAIN articles_data |->
                    IF i < first THEN passes[i].article
                    ELSE articles_data[i]]]

\* The loop over articles_data with the classifier at hand.
DetectAnnotate ==
    /\ program.pc = "annotate"
    /\ \E articles_data \in SeqsUpTo(Articles, MaxArticles) :
          program' = LoopOver(articles_data,
                              [i \in DOMAIN articles_data |->
                                  AnnotateArticle(articles_data[i])])
    /\ UNCHANGED <<alpha, use_ngrams, class_priors, word_likelihoods, vocab,
                   is_trained, vectorizer, word_counts, result, artifact, original,
                   scraper>>

\* The caller of detect_fake_news_with_nb has taken what it returned.
ProgramReturn ==
    /\ program.pc = "returned"
    /\ program' = NoProgram
    /\ UNCHANGED <<alpha, use_ngrams, class_priors, word_likelihoods, vocab,
                   is_trained, vectorizer, word_counts, result, artifact, original,
                   scraper>>

NextDetect ==
    \/ TrainScript \/ DetectLoad \/ ProgramTrain \/ ProgramDump
    \/ DetectAnnotate \/ ProgramReturn \/ ArtifactDamaged

SpecDetect == Init /\ [][NextDetect]_vars

C23_FallbackAnnotatesAll ==
    (/\ program.main = "detect_fake_news_with_nb"
     /\ program.pc = "returned" /\ program.outcome = "returned"
     /\ ~program.loaded) =>
        \A i \in DOMAIN program.articles_data : program.articles_data[i].annotated

\* C24: with a model available detect_fake_news_with_nb returns, whatever
\* the articles, and every article it was given has prediction fields.
C24_FailureIsolated ==
    (/\ program.main = "detect_fake_news_with_nb"
     /\ program.pc = "returned"
     /\ (program.loaded \/ artifact.state = "pickle")) =>
        /\ program.outcome = "returned"
        /\ \A i \in DOMAIN program.articles_data : program.articles_data[i].annotated

----------------------------------------------------------------------------
(* fetch_page_content of scraper.py *)

\* The largest max_retries given to fetch_page_content.
MaxRetries == 3

\* What requests.get and raise_for_status give: a page, a page with the
\* words "access denied" or "blocked", or a RequestException.
Pages == {"page 1", "page 2"}
BlockedPages == {"access denied", "blocked"}
RequestExceptions == {"Timeout", "ConnectionError", "HTTPError"}

\* The wait growing by 2 seconds with each attempt.
WaitTimeLinear(attempt) == 2 * attempt

\* wait_time = 2 ** attempt
WaitTime(attempt) == 2 ^ attempt

\* The ScrapingManager and its workers.
scraping == <<workers, results, event_queue, manager>>

\* The state of the classifier and of its caller.
classifier ==
    <<alpha, use_ngrams, class_priors, word_likelihoods, vocab, is_trained,
      vectorizer, word_counts, result>>

\* fetch_page_content(url, max_retries): with range(max_retries) empty the
\* loop has no pass and the function returns None.
FetchCall ==
    /\ fetch.pc = "idle"
    /\ \E max_retries \in 0..MaxRetries :
          fetch' = IF max_retries = 0
                   THEN [NoFetch EXCEPT !.pc = "returned", !.returned = "None"]
                   ELSE [NoFetch EXCEPT !.pc = "request",
                                        !.max_retries = max_retries]
    /\ UNCHANGED <<classifier, persistence, scrape_log, scrape_run, scraping>>

\* One pass of the loop up to the sleep: the request, and what follows from
\* its outcome.
FetchRequest ==
    /\ fetch.pc = "request"
    /\ \E response \in Pages \cup BlockedPages \cup RequestExceptions :
          LET sent == [fetch EXCEPT !.trace =
                          Append(@, [event |-> "request", attempt |-> fetch.attempt,
                                     response |-> response, seconds |-> 0])]
          IN  fetch' =
                IF response \in BlockedPages
                THEN [sent EXCEPT !.pc = "returned", !.returned = "None"]
                ELSE IF response \in Pages
                THEN [sent EXCEPT !.pc = "returned", !.returned = response]
                ELSE IF fetch.attempt < fetch.max_retries - 1
                THEN [sent EXCEPT !.pc = "sleep"]
                ELSE [sent EXCEPT !.pc = "returned", !.returned = "None"]
    /\ UNCHANGED <<classifier, persistence, scrape_log, scrape_run, scraping>>

\* time.sleep(wait_time), and the next pass of the loop.
FetchSleep ==
    /\ fetch.pc = "sleep"
    /\ fetch' = [fetch EXCEPT
                    !.trace = Append(@, [event |-> "sleep", attempt |-> fetch.attempt,
                                         response |-> "",
                                         seconds |-> WaitTime(fetch.attempt)]),
                    !.attempt = @ + 1,
                    !.pc = "request"]
    /\ UNCHANGED <<classifier, persistence, scrape_log, scrape_run, scraping>>

\* The caller has taken what fetch_page_content returned.
FetchReturn ==
    /\ fetch.pc = "returned"
    /\ fetch' = NoFetch
    /\ UNCHANGED <<classifier, persistence, scrape_log, scrape_run, scraping>>

NextFetch == FetchCall \/ FetchRequest \/ FetchSleep \/ FetchReturn

SpecFetch == Init /\ [][NextFetch]_vars

\* The requests of the call in progress, in the order they were issued.
Requests == SelectSeq(fetch.trace, LAMBDA e : e.event = "request")

\* C29: fetch_page_content issues at most max_retries requests; after the
\* failed request number k that is not the last it waits 2^k seconds before
\* the next request, and it waits at no other time; it returns the body of
\* the first successful response that is not a blocked page, None on a
\* blocked page without another request, and None when all max_retries
\* requests have failed.
C29_RetriesAndBackoff ==
    LET trace == fetch.trace
        last  == trace[Len(trace)]
    IN  /\ Len(Requests) <= fetch.max_retries
        /\ \A k \in DOMAIN Requests : Requests[k].attempt = k - 1
        /\ \A i \in DOMAIN trace :
              trace[i].event = "sleep" =>
                  /\ i > 1
                  /\ (i < Len(trace) \/ fetch.pc = "request")
                  /\ trace[i - 1].event = "request"
                  /\ trace[i - 1].response \in RequestExceptions
                  /\ trace[i - 1].attempt < fetch.max_retries - 1
                  /\ trace[i].seconds = 2 ^ trace[i - 1].attempt
        /\ \A i \in DOMAIN trace :
              (trace[i].event = "request" /\ i > 1) =>
                  /\ trace[i - 1].event = "sleep"
                  /\ \A j \in 1..(i - 1) :
                        trace[j].event = "request" =>
                            trace[j].response \in RequestExceptions
        /\ fetch.pc = "returned" =>
              /\ trace # <<>> => last.event = "request"
              /\ (trace # <<>> /\ last.response \in Pages) =>
                    fetch.returned = last.response
              /\ (trace # <<>> /\ last.response \in BlockedPages) =>
                    fetch.returned = "None"
              /\ (trace = <<>> \/ last.response \in RequestExceptions) =>
                    /\ fetch.returned = "None"
                    /\ Len(Requests) = fetch.max_retries

\* All of 3 requests have failed: the call has waited twice and has
\* returned None.
C29_Witness ==
    /\ fetch.pc = "returned" /\ fetch.returned = "None"
    /\ fetch.max_retries = 3
    /\ Len(Requests) = 3
    /\ Len(fetch.trace) = 5
    /\ fetch.trace[4].seconds = 2

----------------------------------------------------------------------------
(* scrape_npr_tech_news of fake.py *)

\* The number of runs allowed on one day.
DailyLimit == 5

\* The most invocations on the day, and the most on the day before.
MaxInvocations == 7
MaxEarlier == 2

\* The day before, and the day of the invocations.
Yesterday == "yesterday"
Today == "today"

\* The loop over the lines of the log: the lines whose date is today.
TodayCount(lines) == Cardinality({i \in DOMAIN lines : lines[i].day = Today})

\* The limit test with > in place of >=.
LimitExceeded(today_count) == today_count > DailyLimit

\* if today_count >= 5
LimitReached(today_count) == today_count >= DailyLimit

\* A run of the day before has written its time to the log.
ScrapeYesterday ==
    /\ scrape_run.invocations = 0
    /\ Len(scrape_log.lines) < MaxEarlier
    /\ scrape_log' = [exists |-> TRUE,
                      lines |-> Append(scrape_log.lines,
                                       [day |-> Yesterday,
                                        time |-> Len(scrape_log.lines)])]
    /\ UNCHANGED <<classifier, persistence, fetch, scrape_run, scraping>>

\* scrape_npr_tech_news(url, output_file), invoked today: the limit test, the
\* log entry, the prompt with its answer, the request, which succeeds or
\* raises, and the report of the remaining runs.
Scrape ==
    /\ scrape_run.invocations < MaxInvocations
    /\ \E answer \in {"yes", "no"} :
          LET found == TodayCount(scrape_log.lines)
              now == [day |-> Today, time |-> scrape_run.invocations]
              run == [scrape_run EXCEPT !.invocations = @ + 1, !.found = found,
                          !.logged = FALSE, !.prompted = FALSE, !.fetched = FALSE,
                          !.reported = FALSE, !.remaining = 0]
              written == Append(scrape_log.lines, now)
          IN  IF scrape_log.exists /\ LimitReached(found)
              THEN /\ scrape_run' = run
                   /\ UNCHANGED scrape_log
              ELSE /\ scrape_log' = [exists |-> TRUE, lines |-> written]
                   /\ scrape_run' =
                        IF answer = "no"
                        THEN [run EXCEPT !.logged = TRUE, !.prompted = TRUE]
                        ELSE [run EXCEPT !.logged = TRUE, !.prompted = TRUE,
                                  !.fetched = TRUE, !.requests = @ + 1,
                                  !.reported = TRUE,
                                  !.remaining = DailyLimit - TodayCount(written)]
    /\ UNCHANGED <<classifier, persistence, fetch, scraping>>

NextScrape == ScrapeYesterday \/ Scrape

SpecScrape == Init /\ [][NextScrape]_vars

\* C30: on one day the log gains at most 5 entries of the day and the HTTP
\* request is issued in at most 5 invocations; an invocation that finds 5
\* entries of the day returns before logging, prompting and fetching; and
\* the number of remaining runs it reports, 5 minus the entries of the day,
\* is not negative.
C30_DailyLimit ==
    /\ TodayCount(scrape_log.lines) <= DailyLimit
    /\ scrape_run.requests <= DailyLimit
    /\ scrape_run.found >= DailyLimit =>
          ~scrape_run.logged /\ ~scrape_run.prompted /\ ~scrape_run.fetched
    /\ scrape_run.reported =>
          /\ scrape_run.remaining = DailyLimit - TodayCount(scrape_log.lines)
          /\ scrape_run.remaining >= 0

\* The sixth invocation of the day has returned at the limit test, the log
\* having entries of the day before.
C30_Witness ==
    /\ scrape_run.invocations > DailyLimit
    /\ scrape_run.found = DailyLimit
    /\ scrape_run.requests = DailyLimit
    /\ Len(scrape_log.lines) > DailyLimit

----------------------------------------------------------------------------
(* ScrapingManager and ScrapingWorker of interface/user_interface.py *)

\* The number of sources given to the ScrapingManager.
MaxWorkers == 2

\* The source of each url.
Sources == <<"npr", "kaggle", "unknown", "other">>

\* The articles a worker finds: the articles of its source.
ArticlesOf(worker) == <<[source |-> Sources[worker], number |-> 1]>>

\* self.results[source] = result
Store(dict, source, articles) ==
    IF source \in KeySet(dict)
    THEN [i \in DOMAIN dict |->
            IF dict[i][1] = source THEN <<source, articles>> ELSE dict[i]]
    ELSE Append(dict, <<source, articles>>)

\* ScrapingManager.run, lines 102-114: the workers are created, connected
\* and started.
ManagerStart ==
    /\ manager.pc = "created"
    /\ \E n \in 1..MaxWorkers :
          workers' = [w \in 1..n |-> [pc |-> "running", emitted |-> "nothing"]]
    /\ manager' = [manager EXCEPT !.pc = "wait"]
    /\ UNCHANGED <<classifier, persistence, fetch, scrape_log, scrape_run,
                   results, event_queue>>

\* ScrapingWorker.run: the thread emits finished with its articles, or error,
\* and ends.  The manager object lives in the thread that created it, so the
\* signal is queued for that thread.
WorkerRun ==
    \E w \in DOMAIN workers :
        /\ workers[w].pc = "running"
        /\ \E signal \in {"finished", "error"} :
              /\ workers' = [workers EXCEPT ![w] = [pc |-> "ended", emitted |-> signal]]
              /\ event_queue' = Append(event_queue, [signal |-> signal, worker |-> w])
        /\ UNCHANGED <<classifier, persistence, fetch, scrape_log, scrape_run,
                       results, manager>>

\* The event loop of the manager's thread delivers the oldest queued signal:
\* on_worker_finished stores the result, on_worker_error stores nothing.
DeliverSignal ==
    /\ event_queue # <<>>
    /\ LET event == Head(event_queue)
       IN  results' = IF event.signal = "finished"
                      THEN Store(results, Sources[event.worker],
                                 ArticlesOf(event.worker))
                      ELSE results
    /\ event_queue' = Tail(event_queue)
    /\ UNCHANGED <<classifier, persistence, fetch, scrape_log, scrape_run,
                   workers, manager>>

\* worker.wait() for the next worker returns when its thread has ended.
ManagerWait ==
    /\ manager.pc = "wait"
    /\ IF manager.waited = Len(workers)
       THEN manager' = [manager EXCEPT !.pc = "test"]
       ELSE /\ workers[manager.waited + 1].pc = "ended"
            /\ manager' = [manager EXCEPT !.waited = @ + 1]
    /\ UNCHANGED <<classifier, persistence, fetch, scrape_log, scrape_run,
                   workers, results, event_queue>>

\* if len(self.results) >= 1, and the error of the else branch.
ManagerTest ==
    /\ manager.pc = "test"
    /\ manager' = IF Len(results) >= 1
                  THEN [manager EXCEPT !.pc = "collect"]
                  ELSE [manager EXCEPT !.pc = "done", !.emitted =
                          Append(@, [signal |-> "error",
                                     message |-> "All sources failed to complete scraping",
                                     articles |-> <<>>])]
    /\ UNCHANGED <<classifier, persistence, fetch, scrape_log, scrape_run,
                   workers, results, event_queue>>

\* Lines 122-130: the articles of self.results are put together and emitted.
ManagerCollect ==
    /\ manager.pc = "collect"
    /\ LET all_articles == Concat([i \in DOMAIN results |-> results[i][2]])
       IN  manager' = [manager EXCEPT !.pc = "done", !.emitted =
               Append(@, IF all_articles # <<>>
                         THEN [signal |-> "finished", message |-> "",
                               articles |-> all_articles]
                         ELSE [signal |-> "error",
                               message |-> "No articles were found from any source",
                               articles |-> <<>>])]
    /\ UNCHANGED <<classifier, persistence, fetch, scrape_log, scrape_run,
                   workers, results, event_queue>>

NextScraping ==
    \/ ManagerStart \/ WorkerRun \/ DeliverSignal
    \/ ManagerWait \/ ManagerTest \/ ManagerCollect

SpecScraping == Init /\ [][NextScraping]_vars

\* The workers that emitted finished.
FinishedWorkers == {w \in DOMAIN workers : workers[w].emitted = "finished"}

\* C28: when run has waited for all workers and has emitted, it has emitted
\* exactly one signal; if some worker emitted finished the signal is finished
\* with the articles of every worker that emitted finished, and it is the
\* error "All sources failed to complete scraping" only if none did.
C28_ManagerCollectsAllWorkers ==
    manager.pc = "done" =>
        /\ Len(manager.emitted) = 1
        /\ LET signal == manager.emitted[1]
           IN  IF FinishedWorkers = {}
               THEN signal.signal = "error"
               ELSE /\ signal.signal = "finished"
                    /\ Len(signal.articles) = Cardinality(FinishedWorkers)
                    /\ Range(signal.articles) =
                          UNION {Range(ArticlesOf(w)) : w \in FinishedWorkers}
====
